---- MODULE Spec2Model ----
(***************************************************************************)
(* Model of the Constitutional Python SDK transport                        *)
(* (packages/sdk-python/constitutional/utils/request.py): one logical call *)
(* of HttpClient._request, its retry loop, its classification of           *)
(* responses and the exceptions of types/common.py.                        *)
(*                                                                         *)
(* Optional values (Python None) are sets: {} is None, {v} is the value v. *)
(* Dictionaries are sets of <<key, value>> pairs.                          *)
(***************************************************************************)
EXTENDS Integers, Naturals, Sequences, FiniteSets, TLC

\* ------------------------------------------------------------------------
\* Bounds of the model
\* ------------------------------------------------------------------------

\* largest HttpClient.max_retries the model configures
MaxRetriesCfg == 3

\* ------------------------------------------------------------------------
\* Program constants
\* ------------------------------------------------------------------------

DEFAULT_MAX_RETRIES == 3

\* the default of response.headers.get("retry-after", "60"), as characters
DefaultRetryAfter == <<"6", "0">>

\* values of self.max_retries: the default, every smaller budget, and a
\* negative budget (the constructor does not validate it)
RetryConfigs == {0 - 1} \cup (0..MaxRetriesCfg) \cup {DEFAULT_MAX_RETRIES}

\* request paths handed to _request
Paths == {"/v1/bills", "/v1/bills/b1"}

\* largest max_retries of the calls that carry query parameters
MaxWireRetries == 1

\* number of fetches after which the model stops following the iterators
MaxFetches == 3

\* largest max_items the model hands to collect_all
MaxItemsCfg == 3

\* ------------------------------------------------------------------------
\* Optional values and dictionaries
\* ------------------------------------------------------------------------

None == {}

Some(v) == {v}

\* the value held by a present optional
The(o) == CHOOSE v \in o : TRUE

\* dict.get(key, default) on a field held as an optional
GetOr(o, default) == IF o = None THEN default ELSE The(o)

EmptyDict == {}

\* ------------------------------------------------------------------------
\* int(str): Python's integer parse of a header value
\* ------------------------------------------------------------------------

Digits == <<"0", "1", "2", "3", "4", "5", "6", "7", "8", "9">>

IsDigit(c) == \E i \in 1..Len(Digits) : Digits[i] = c

DigitVal(c) == (CHOOSE i \in 1..Len(Digits) : Digits[i] = c) - 1

RECURSIVE DigitsVal(_)
DigitsVal(s) ==
    IF s = <<>> THEN 0
    ELSE 10 * DigitsVal(SubSeq(s, 1, Len(s) - 1)) + DigitVal(s[Len(s)])

AllDigits(s) == s # <<>> /\ \A i \in 1..Len(s) : IsDigit(s[i])

\* int(s): [ok |-> TRUE, val |-> n], or [ok |-> FALSE] when int() raises
\* ValueError
PyInt(s) ==
    IF AllDigits(s) THEN [ok |-> TRUE, val |-> DigitsVal(s)]
    ELSE IF s # <<>> /\ s[1] = "-" /\ AllDigits(Tail(s))
         THEN [ok |-> TRUE, val |-> 0 - DigitsVal(Tail(s))]
         ELSE [ok |-> FALSE, val |-> 0]

\* ------------------------------------------------------------------------
\* Responses of the server
\* ------------------------------------------------------------------------

\* a response body: not JSON at all, a JSON value that is not an object, or
\* a JSON object whose "error" member is absent, not an object, or an
\* object with optional message / code / details
Body(json, error, message, code, details) ==
    [json |-> json, error |-> error, message |-> message, code |-> code,
     details |-> details]

InvalidJsonBody == Body("invalid", "absent", None, None, None)

ArrayBody == Body("array", "absent", None, None, None)

EmptyObject == Body("object", "absent", None, None, None)

ErrorStringBody == Body("object", "string", None, None, None)

EnvelopeDetails == {<<"field", "title">>}

EnvelopeBodies ==
    { Body("object", "object", m, c, d) :
        m \in {None, Some("Bill is invalid")},
        c \in {None, Some("VALIDATION_ERROR")},
        d \in {None, Some(EnvelopeDetails)} }

Bodies ==
    {InvalidJsonBody, ArrayBody, EmptyObject, ErrorStringBody}
        \cup EnvelopeBodies

Statuses == {200, 201, 204, 400, 401, 404, 429, 500}

\* values of the retry-after header: absent, seconds, a negative number and
\* an HTTP date
RetryAfterHeaders ==
    {None, Some(<<"2">>), Some(<<"-", "1">>), Some(<<"W", "e", "d">>)}

RequestIds == {None, Some("req-1")}

Responses ==
    [status_code : Statuses, body : Bodies, retry_after : RetryAfterHeaders,
     request_id : RequestIds]

\* a success test that accepts 200 only
IsExactly200(resp) == resp.status_code = 200

\* httpx.Response.is_success
is_success(resp) == resp.status_code >= 200 /\ resp.status_code <= 299

\* ------------------------------------------------------------------------
\* Exceptions (types/common.py) and the outcomes of one attempt
\* ------------------------------------------------------------------------

\* an error that drops the correlation id
ErrorWithoutRequestId(message, code, status_code, details, request_id) ==
    [exc |-> "ConstitutionalError", message |-> message, code |-> code,
     status_code |-> status_code,
     details |-> IF details = None \/ The(details) = EmptyDict
                 THEN EmptyDict ELSE The(details),
     request_id |-> None]

ConstitutionalError(message, code, status_code, details, request_id) ==
    [exc |-> "ConstitutionalError", message |-> message, code |-> code,
     status_code |-> status_code,
     details |-> IF details = None \/ The(details) = EmptyDict
                 THEN EmptyDict ELSE The(details),
     request_id |-> request_id]

RateLimitError(message, retry_after, request_id) ==
    [exc |-> "RateLimitError", message |-> message,
     code |-> "RATE_LIMIT_EXCEEDED", status_code |-> 429,
     details |-> {<<"retry_after", retry_after>>},
     request_id |-> request_id, retry_after |-> retry_after]

AuthenticationError(message, request_id) ==
    [exc |-> "AuthenticationError", message |-> message,
     code |-> "AUTHENTICATION_ERROR", status_code |-> 401,
     details |-> EmptyDict, request_id |-> request_id]

NotFoundError(resource, resource_id, request_id) ==
    [exc |-> "NotFoundError",
     message |-> <<resource, " ", resource_id, " not found">>,
     code |-> "NOT_FOUND", status_code |-> 404,
     details |-> {<<"resource", resource>>, <<"id", resource_id>>},
     request_id |-> request_id, resource |-> resource,
     resource_id |-> resource_id]

\* exceptions of the interpreter and of the json module
BuiltinError(name) == [exc |-> name]

Return(value) == [kind |-> "return", value |-> value]

Raise(error) == [kind |-> "raise", error |-> error]

Pending == [kind |-> "pending"]

\* ------------------------------------------------------------------------
\* HttpClient._request: the body of the try block for one response
\* ------------------------------------------------------------------------

\* error_body: response.json(), or {} when that raises
ErrorBodyOf(resp) ==
    IF resp.body.json = "invalid" THEN EmptyObject ELSE resp.body

\* error_body.get("error", {}).get(...) raises AttributeError when
\* error_body is not a dict or its "error" member is not a dict
EnvelopeReadable(error_body) ==
    error_body.json = "object" /\ error_body.error # "string"

\* int(response.headers.get("retry-after", "60"))
RetryAfterOf(resp) == PyInt(GetOr(resp.retry_after, DefaultRetryAfter))

\* what the try block does with a response: the value it returns or the
\* exception it raises
TryBody(resp, path) ==
    IF resp.status_code = 204 THEN Return(EmptyObject)
    ELSE IF is_success(resp)
    THEN IF resp.body.json = "invalid"
         THEN Raise(BuiltinError("JSONDecodeError"))
         ELSE Return(resp.body)
    ELSE LET error_body == ErrorBodyOf(resp) IN
         IF ~EnvelopeReadable(error_body)
         THEN Raise(BuiltinError("AttributeError"))
         ELSE LET error_message == GetOr(error_body.message, "Request failed")
                  error_code == GetOr(error_body.code, "ERROR")
              IN  IF resp.status_code = 429
                  THEN IF ~RetryAfterOf(resp).ok
                       THEN Raise(BuiltinError("ValueError"))
                       ELSE Raise(RateLimitError(error_message,
                                                 RetryAfterOf(resp).val,
                                                 resp.request_id))
                  ELSE IF resp.status_code = 401
                  THEN Raise(AuthenticationError(error_message,
                                                 resp.request_id))
                  ELSE IF resp.status_code = 404
                  THEN Raise(NotFoundError("Resource", path, resp.request_id))
                  ELSE Raise(ConstitutionalError(error_message, error_code,
                                                 resp.status_code,
                                                 error_body.details,
                                                 resp.request_id))

\* a backoff that grows linearly instead of doubling
Pow2Linear(n) == n + 1

\* 2**retries
RECURSIVE Pow2(_)
Pow2(n) == IF n <= 0 THEN 1 ELSE 2 * Pow2(n - 1)

TimeoutError == ConstitutionalError("Request timed out", "TIMEOUT", 408,
                                    None, None)

\* str(e) of a connection failure
NetworkMessage == "Connection refused"

NetworkError == ConstitutionalError(NetworkMessage, "HTTP_ERROR", 500,
                                    None, None)

ExhaustedError == ConstitutionalError("Request failed after retries",
                                      "RETRY_EXHAUSTED", 500, None, None)

\* ------------------------------------------------------------------------
\* Query parameters
\* ------------------------------------------------------------------------

\* a Python value of a query parameter, by type and repr
PyValue(type, repr) == [type |-> type, repr |-> repr]

PyNone == PyValue("NoneType", "None")

\* values the status filter and the limit of a listing are called with
StatusValues == {PyNone, PyValue("str", ""), PyValue("str", "active")}

LimitValues == {PyNone, PyValue("int", "0"), PyValue("bool", "False")}

\* the params argument: None, or a dict over the keys status and limit
ParamDicts ==
    { s \cup l :
        s \in {{}} \cup { {<<"status", v>>} : v \in StatusValues },
        l \in {{}} \cup { {<<"limit", v>>} : v \in LimitValues } }

ParamArgs == {None} \cup { Some(d) : d \in ParamDicts }

\* a filter on truthiness instead of on None
FilterTruthy(p) ==
    IF p = None \/ The(p) = EmptyDict THEN p
    ELSE Some({ kv \in The(p) : kv[2].repr \notin {"None", "0", "False", ""} })

\* if params: params = {k: v for k, v in params.items() if v is not None}
FilterParams(p) ==
    IF p = None \/ The(p) = EmptyDict THEN p
    ELSE Some({ kv \in The(p) : kv[2] # PyNone })

\* url = f"/api{path}"
UrlOf(path) == <<"/api", path>>

\* ------------------------------------------------------------------------
\* State of one logical call
\* ------------------------------------------------------------------------

VARIABLES
    max_retries,    \* self.max_retries
    path,           \* the path argument
    pc,             \* "loop": at the while test; "sleep": in time.sleep;
                    \* "done": returned or raised
    retries,        \* the local retries
    last_error,     \* the local last_error (optional)
    received,       \* what the latest self._client.request produced
    result,         \* how the call ended
    requests,       \* history: number of self._client.request calls
    waits,          \* history: the durations passed to time.sleep
    history,        \* history: what each attempt received
    arg_params,     \* the params argument as the caller passed it
    params,         \* the local params, after the filter
    sent,           \* history: the arguments of each self._client.request
    method,         \* the method argument
    json            \* the json argument (optional)

\* state of the pagination iterators (declared with their operations)
VARIABLES
    gen,            \* generator frames of paginate, one per iterator
    fetches,        \* history: cursor argument of each fetch, per iterator
    pages,          \* history: the pages each iterator's fetches returned
    yielded,        \* history: the items each iterator delivered
    pulls,          \* history: number of next() calls on each iterator
    consumer,       \* the frame of collect_all, or a caller pulling by hand
    kwargs,         \* the **kwargs each paginate call was given
    fetch_args,     \* history: the **kwargs of each fetch, per iterator
    raised          \* the exception that left each iterator (optional)

rvars == <<max_retries, path, pc, retries, last_error, received, result,
           requests, waits, history, arg_params, params, sent, method, json>>

pvars == <<gen, fetches, pages, yielded, pulls, consumer, kwargs,
           fetch_args, raised>>

\* state around WebhooksResource.verify_signature and around the logical
\* calls that threads make on one HttpClient (declared with their
\* operations)
VARIABLES
    clock,          \* time.time(), in ticks of 1/TicksPerSecond seconds
    delivery,       \* a webhook delivery: payload, header fields, secret,
                    \* tolerance
    verdicts,       \* history: the calls of verify_signature and what each
                    \* produced
    calls           \* frames of _request, one per thread

xvars == <<clock, delivery, verdicts, calls>>

vars == <<rvars, pvars, xvars>>

\* the arguments of self._client.request
Wire(m, url, p, j) == [method |-> m, url |-> url, params |-> p, json |-> j]

\* a history entry: what an attempt received (status_code 0 and no
\* retry-after header: no response)
Entry(transport, status_code, retry_after) ==
    [transport |-> transport, status_code |-> status_code,
     retry_after |-> retry_after]

\* the iterators a caller may hold over one fetcher
Iterators == {1, 2}

\* a generator frame: pc is "none" (no such iterator), "created" (the
\* generator object exists, its body has not started), "fetching" (inside
\* fetch_page), "suspended" (at the yield) or "finished" (StopIteration)
Frame(gpc, cursor, has_more, response, idx) ==
    [pc |-> gpc, cursor |-> cursor, has_more |-> has_more,
     response |-> response, idx |-> idx]

NoFrame == Frame("none", None, FALSE, None, 0)

\* paginate(fetch_page, **kwargs): the generator object before its first
\* next()
NewFrame == Frame("created", None, FALSE, None, 0)

\* the caller of the iterators: pulling by hand (mode "next"), or the frame
\* of collect_all over iterator 1
Consumer(mode, max_items, items, cpc) ==
    [mode |-> mode, max_items |-> max_items, items |-> items, pc |-> cpc]

ByHand == Consumer("next", None, <<>>, "looping")

\* no pagination is going on
PagIdle ==
    /\ gen = [g \in Iterators |-> NoFrame]
    /\ fetches = [g \in Iterators |-> <<>>]
    /\ pages = [g \in Iterators |-> <<>>]
    /\ yielded = [g \in Iterators |-> <<>>]
    /\ pulls = [g \in Iterators |-> 0]
    /\ consumer = ByHand
    /\ kwargs = [g \in Iterators |-> EmptyDict]
    /\ fetch_args = [g \in Iterators |-> <<>>]
    /\ raised = [g \in Iterators |-> None]

\* the arguments of verify_signature that a webhook delivery provides; the
\* X-Webhook-Signature header is held as its comma-separated fields
Delivery(payload, fields, secret, tolerance) ==
    [payload |-> payload, fields |-> fields, secret |-> secret,
     tolerance |-> tolerance]

NoDelivery == Delivery(<<>>, <<>>, <<>>, 0)

\* the threads that call one HttpClient
Threads == {1, 2}

\* the frame of _request in one thread: its arguments and locals, and the
\* history of what its attempts received and of its time.sleep calls
CallFrame(cpc, cpath, cretries, clast_error, cresult, cwaits, chistory) ==
    [pc |-> cpc, path |-> cpath, retries |-> cretries,
     last_error |-> clast_error, result |-> cresult, waits |-> cwaits,
     history |-> chistory]

NoCall == CallFrame("none", "", 0, None, Pending, <<>>, <<>>)

\* no webhook is being verified and no thread is inside _request
OthersIdle ==
    /\ clock = 0
    /\ delivery = NoDelivery
    /\ verdicts = <<>>
    /\ calls = [k \in Threads |-> NoCall]

\* the arguments a public method hands to _request
Shape(m, p, j) == [method |-> m, params |-> p, json |-> j]

\* a call of _request at its while loop: lines 93-100 have run
InitRequest(budgets, shapes) ==
    /\ max_retries \in budgets
    /\ path \in Paths
    /\ pc = "loop"
    /\ retries = 0
    /\ last_error = None
    /\ received = [transport |-> "none"]
    /\ result = Pending
    /\ requests = 0
    /\ waits = <<>>
    /\ history = <<>>
    /\ \E shape \in shapes :
          /\ method = shape.method
          /\ arg_params = shape.params
          /\ json = shape.json
    /\ params = FilterParams(arg_params)
    /\ sent = <<>>
    /\ PagIdle
    /\ OthersIdle

\* get(path, params) for params in args
InitCall(budgets, args) ==
    InitRequest(budgets, { Shape("GET", a, None) : a \in args })

\* a get call without query parameters
Init == InitCall(RetryConfigs, {None})

\* a get call with query parameters
InitWire == InitCall({0 - 1} \cup (0..MaxWireRetries), ParamArgs)

\* the call ends, returning a value or raising
Finish(r) ==
    /\ result' = r
    /\ pc' = "done"
    /\ UNCHANGED <<retries, waits>>

\* time.sleep(seconds) inside an except clause; retries += 1 follows when
\* it returns.  time.sleep raises ValueError for a negative argument.
SleepThenRetry(seconds) ==
    IF seconds < 0
    THEN Finish(Raise(BuiltinError("ValueError")))
    ELSE /\ waits' = Append(waits, seconds)
         /\ pc' = "sleep"
         /\ UNCHANGED <<result, retries>>

\* an except clause that sleeps and counts after the last attempt too
DispatchAlwaysSleeps(r) ==
    IF r.kind = "raise" /\ r.error.exc = "RateLimitError"
          /\ retries <= max_retries
    THEN SleepThenRetry(r.error.retry_after)
    ELSE Finish(r)

\* the except clauses applied to what the try block did
Dispatch(r) ==
    IF r.kind = "raise" /\ r.error.exc = "RateLimitError"
          /\ retries < max_retries
    THEN SleepThenRetry(r.error.retry_after)
    ELSE Finish(r)

\* a loop that tests its condition after the first attempt only
WhileAtLeastOnce == retries <= max_retries \/ requests = 0

\* while retries <= self.max_retries:
WhileTrue == retries <= max_retries

\* one attempt that receives a response
RequestResponse ==
    /\ pc = "loop"
    /\ WhileTrue
    /\ \E resp \in Responses :
          /\ received' = [transport |-> "response", response |-> resp]
          /\ history' = Append(history, Entry("response", resp.status_code,
                                           resp.retry_after))
          /\ Dispatch(TryBody(resp, path))
    /\ requests' = requests + 1
    /\ sent' = Append(sent, Wire(method, UrlOf(path), params, json))
    /\ UNCHANGED <<max_retries, path, last_error, arg_params, params>>
    /\ UNCHANGED <<method, json, pvars, xvars>>

\* a retry test that gives up one attempt early
RequestFailsEarly(transport, error) ==
    /\ pc = "loop"
    /\ retries <= max_retries
    /\ received' = [transport |-> transport]
    /\ history' = Append(history, Entry(transport, 0, None))
    /\ requests' = requests + 1
    /\ last_error' = Some(error)
    /\ IF retries + 1 < max_retries
       THEN SleepThenRetry(Pow2(retries))
       ELSE Finish(Raise(error))
    /\ sent' = Append(sent, Wire(method, UrlOf(path), params, json))
    /\ UNCHANGED <<max_retries, path, arg_params, params>>
    /\ UNCHANGED <<method, json, pvars, xvars>>

\* a backoff whose exponent counts the network failures only
RequestFailsOwnCounter(transport, error) ==
    /\ pc = "loop"
    /\ WhileTrue
    /\ received' = [transport |-> transport]
    /\ history' = Append(history, Entry(transport, 0, None))
    /\ requests' = requests + 1
    /\ last_error' = Some(error)
    /\ IF retries < max_retries
       THEN SleepThenRetry(Pow2(Cardinality(
                { i \in 1..Len(history) : history[i].transport # "response" })))
       ELSE Finish(Raise(error))
    /\ sent' = Append(sent, Wire(method, UrlOf(path), params, json))
    /\ UNCHANGED <<max_retries, path, arg_params, params>>
    /\ UNCHANGED <<method, json, pvars, xvars>>

\* a retry reserved for GET: a failed POST, PUT or DELETE is not re-sent
RequestFailsGetOnly(transport, error) ==
    /\ pc = "loop"
    /\ WhileTrue
    /\ received' = [transport |-> transport]
    /\ history' = Append(history, Entry(transport, 0, None))
    /\ requests' = requests + 1
    /\ last_error' = Some(error)
    /\ IF retries < max_retries /\ method = "GET"
       THEN SleepThenRetry(Pow2(retries))
       ELSE Finish(Raise(error))
    /\ sent' = Append(sent, Wire(method, UrlOf(path), params, json))
    /\ UNCHANGED <<max_retries, path, arg_params, params>>
    /\ UNCHANGED <<method, json, pvars, xvars>>

\* one attempt that raises transport (httpx.TimeoutException or another
\* httpx.HTTPError), leaving error as last_error
RequestFails(transport, error) ==
    /\ pc = "loop"
    /\ WhileTrue
    /\ received' = [transport |-> transport]
    /\ history' = Append(history, Entry(transport, 0, None))
    /\ requests' = requests + 1
    /\ last_error' = Some(error)
    /\ IF retries < max_retries
       THEN SleepThenRetry(Pow2(retries))
       ELSE Finish(Raise(error))
    /\ sent' = Append(sent, Wire(method, UrlOf(path), params, json))
    /\ UNCHANGED <<max_retries, path, arg_params, params>>
    /\ UNCHANGED <<method, json, pvars, xvars>>

RequestTimeout == RequestFails("TimeoutException", TimeoutError)

RequestNetworkError == RequestFails("HTTPError", NetworkError)

\* a loop in which a rate-limit retry does not count
SleepReturnsNetworkOnly ==
    /\ pc = "sleep"
    /\ retries' = IF history[Len(history)].transport = "response"
                  THEN retries ELSE retries + 1
    /\ pc' = "loop"
    /\ UNCHANGED <<max_retries, path, last_error, received, result,
                   requests, waits, history, arg_params, params, sent>>
    /\ UNCHANGED <<method, json, pvars, xvars>>

\* time.sleep returns: retries += 1; continue
SleepReturns ==
    /\ pc = "sleep"
    /\ retries' = retries + 1
    /\ pc' = "loop"
    /\ UNCHANGED <<max_retries, path, last_error, received, result,
                   requests, waits, history, arg_params, params, sent>>
    /\ UNCHANGED <<method, json, pvars, xvars>>

\* the while condition is false
LoopExit ==
    /\ pc = "loop"
    /\ ~WhileTrue
    /\ Finish(IF last_error # None THEN Raise(The(last_error))
              ELSE Raise(ExhaustedError))
    /\ UNCHANGED <<max_retries, path, last_error, received, requests,
                   history, arg_params, params, sent>>
    /\ UNCHANGED <<method, json, pvars, xvars>>

Next ==
    \/ RequestResponse
    \/ RequestTimeout
    \/ RequestNetworkError
    \/ SleepReturns
    \/ LoopExit

Spec == Init /\ [][Next]_vars

\* the same call, made with query parameters
SpecWire == InitWire /\ [][Next]_vars

\* ------------------------------------------------------------------------
\* Pagination (utils/pagination.py)
\* ------------------------------------------------------------------------

\* PaginatedResponse: data and pagination.has_more / pagination.cursor
Page(data, has_more, cursor) ==
    [data |-> data, has_more |-> has_more, cursor |-> cursor]

PageData == {<<>>, <<"c">>, <<"a", "b">>}

Cursors == {None, Some("c1"), Some("c2")}

\* the pages a fetcher may return
Pages ==
    { Page(d, h, c) : d \in PageData, h \in BOOLEAN, c \in Cursors }

\* the **kwargs of paginate and collect_all: filter arguments that are
\* handed on to fetch_page (cursor is the argument paginate itself passes)
FilterArgs == {EmptyDict, {<<"status", "active">>}}

\* max_items of collect_all: None, or a count
MaxItemsArgs == {None} \cup { Some(n) : n \in 0..MaxItemsCfg }

\* the truth value of max_items in "if max_items and ..."
Truthy(max_items) == max_items # None /\ The(max_items) # 0

\* next() may be called on iterator g: collect_all calls it while its for
\* loop runs
CanPull(g) ==
    (g = 1 /\ consumer.mode = "collect_all") => consumer.pc = "looping"

\* a first frame that takes over the cursor another iterator has reached
StartFrameShared(g) == Frame("running", gen[3 - g].cursor, TRUE, None, 0)

\* cursor = None; has_more = True
StartFrame(g) == Frame("running", None, TRUE, None, 0)

\* an update after the for loop that forgets the page's cursor
AfterLoopKeepsCursor(f) ==
    [f EXCEPT !.has_more = The(f.response).has_more]

\* has_more = response.pagination.has_more
\* cursor = response.pagination.cursor
AfterLoop(f) ==
    [f EXCEPT !.has_more = The(f.response).has_more,
              !.cursor = The(f.response).cursor]

\* response = fetch_page(cursor=cursor, **kwargs) is called
IssueFetch(g, f) ==
    /\ Len(fetches[1]) + Len(fetches[2]) < MaxFetches
    /\ gen' = [gen EXCEPT ![g] = [f EXCEPT !.pc = "fetching"]]
    /\ fetches' = [fetches EXCEPT ![g] = Append(@, f.cursor)]
    /\ fetch_args' = [fetch_args EXCEPT ![g] = Append(@, kwargs[g])]
    /\ UNCHANGED consumer

\* the generator returns: next() raises StopIteration, which ends the for
\* loop of collect_all
StopIteration(g, f) ==
    /\ gen' = [gen EXCEPT ![g] = [f EXCEPT !.pc = "finished"]]
    /\ consumer' = IF g = 1 /\ consumer.mode = "collect_all"
                   THEN [consumer EXCEPT !.pc = "returned"]
                   ELSE consumer
    /\ UNCHANGED <<fetches, fetch_args>>

\* a loop test on the cursor instead of on has_more
WhileTestOnCursor(g, f) ==
    /\ IF f.cursor # None THEN IssueFetch(g, f) ELSE StopIteration(g, f)
    /\ UNCHANGED yielded

\* while has_more:
WhileTest(g, f) ==
    /\ IF f.has_more THEN IssueFetch(g, f) ELSE StopIteration(g, f)
    /\ UNCHANGED yielded

\* the body of collect_all's for loop: items.append(item), then the break
\* test
CollectItem(c, item) ==
    LET items == Append(c.items, item) IN
    [c EXCEPT !.items = items,
              !.pc = IF Truthy(c.max_items) /\ Len(items) >= The(c.max_items)
                     THEN "returned" ELSE "looping"]

\* yield item: the generator suspends and next() returns item
Yield(g, f, item) ==
    /\ gen' = [gen EXCEPT ![g] = [f EXCEPT !.pc = "suspended"]]
    /\ yielded' = [yielded EXCEPT ![g] = Append(@, item)]
    /\ consumer' = IF g = 1 /\ consumer.mode = "collect_all"
                   THEN CollectItem(consumer, item)
                   ELSE consumer
    /\ UNCHANGED <<fetches, fetch_args>>

\* a for loop that fetches the next page as soon as it hands out the last
\* item of a page
ForLoopEager(g, f) ==
    IF f.idx < Len(The(f.response).data)
    THEN IF f.idx + 1 = Len(The(f.response).data)
               /\ The(f.response).has_more
         THEN /\ Len(fetches[1]) + Len(fetches[2]) < MaxFetches
              /\ gen' = [gen EXCEPT ![g] =
                            [AfterLoop(f) EXCEPT !.pc = "fetching",
                                                 !.idx = f.idx + 1]]
              /\ fetches' = [fetches EXCEPT ![g] =
                                Append(@, The(f.response).cursor)]
              /\ fetch_args' = [fetch_args EXCEPT ![g] =
                                   Append(@, kwargs[g])]
              /\ yielded' = [yielded EXCEPT ![g] =
                                Append(@, The(f.response).data[f.idx + 1])]
              /\ consumer' = IF g = 1 /\ consumer.mode = "collect_all"
                             THEN CollectItem(consumer,
                                      The(f.response).data[f.idx + 1])
                             ELSE consumer
         ELSE Yield(g, [f EXCEPT !.idx = f.idx + 1],
                    The(f.response).data[f.idx + 1])
    ELSE WhileTest(g, AfterLoop(f))

\* a loop that takes an empty page for the end of the listing
ForLoopStopsOnEmpty(g, f) ==
    IF f.idx < Len(The(f.response).data)
    THEN Yield(g, [f EXCEPT !.idx = f.idx + 1],
               The(f.response).data[f.idx + 1])
    ELSE IF The(f.response).data = <<>>
    THEN StopIteration(g, AfterLoop(f)) /\ UNCHANGED yielded
    ELSE WhileTest(g, AfterLoop(f))

\* for item in response.data, from position f.idx on, and what follows the
\* loop
ForLoop(g, f) ==
    IF f.idx < Len(The(f.response).data)
    THEN Yield(g, [f EXCEPT !.idx = f.idx + 1],
               The(f.response).data[f.idx + 1])
    ELSE WhileTest(g, AfterLoop(f))

\* the first next(): the body of paginate starts
GenStart(g) ==
    /\ gen[g].pc = "created"
    /\ CanPull(g)
    /\ pulls' = [pulls EXCEPT ![g] = @ + 1]
    /\ WhileTest(g, StartFrame(g))
    /\ UNCHANGED <<pages, kwargs, raised>>
    /\ UNCHANGED <<rvars, xvars>>

\* a later next(): the generator resumes after its yield
GenResume(g) ==
    /\ gen[g].pc = "suspended"
    /\ CanPull(g)
    /\ pulls' = [pulls EXCEPT ![g] = @ + 1]
    /\ ForLoop(g, gen[g])
    /\ UNCHANGED <<pages, kwargs, raised>>
    /\ UNCHANGED <<rvars, xvars>>

\* fetch_page returns a page
FetchReturns(g) ==
    /\ gen[g].pc = "fetching"
    /\ \E page \in Pages :
          /\ pages' = [pages EXCEPT ![g] = Append(@, page)]
          /\ ForLoop(g, [gen[g] EXCEPT !.response = Some(page), !.idx = 0])
    /\ UNCHANGED <<pulls, kwargs, raised>>
    /\ UNCHANGED <<rvars, xvars>>

\* the iterators in its, consumed as one of consumers; no _request is
\* followed
InitIterators(its, consumers) ==
    /\ max_retries = DEFAULT_MAX_RETRIES
    /\ path = "/v1/bills"
    /\ pc = "idle"
    /\ retries = 0
    /\ last_error = None
    /\ received = [transport |-> "none"]
    /\ result = Pending
    /\ requests = 0
    /\ waits = <<>>
    /\ history = <<>>
    /\ arg_params = None
    /\ params = None
    /\ sent = <<>>
    /\ method = "GET"
    /\ json = None
    /\ gen = [g \in Iterators |-> IF g \in its THEN NewFrame ELSE NoFrame]
    /\ fetches = [g \in Iterators |-> <<>>]
    /\ pages = [g \in Iterators |-> <<>>]
    /\ yielded = [g \in Iterators |-> <<>>]
    /\ pulls = [g \in Iterators |-> 0]
    /\ consumer \in consumers
    /\ kwargs \in [Iterators -> FilterArgs]
    /\ \A g \in Iterators \ its : kwargs[g] = EmptyDict
    /\ fetch_args = [g \in Iterators |-> <<>>]
    /\ raised = [g \in Iterators |-> None]
    /\ OthersIdle

\* one iterator, pulled by hand or consumed by collect_all
InitPaginate ==
    InitIterators({1}, {ByHand} \cup
        { Consumer("collect_all", m, <<>>, "looping") : m \in MaxItemsArgs })

\* two iterators over the same fetcher, both pulled by hand
InitTwo == InitIterators(Iterators, {ByHand})

NextPaginate ==
    \/ \E g \in Iterators : GenStart(g)
    \/ \E g \in Iterators : GenResume(g)
    \/ \E g \in Iterators : FetchReturns(g)

SpecPaginate == InitPaginate /\ [][NextPaginate]_vars

SpecTwo == InitTwo /\ [][NextPaginate]_vars

\* number of next() calls after which the model stops pulling an iterator
\* that has ended
MaxPulls == 8

\* the exceptions fetch_page may raise: those of a resource's list method
FetchErrors == {"NetworkError", "RateLimitError"}

\* a collect_all that returns what it has gathered when the iterator raises
ReturnPartial(c) == [c EXCEPT !.pc = "returned"]

\* collect_all has no try: an exception raised by next() in its for loop
\* leaves the function, and the local list items with it
Propagate(c) == [c EXCEPT !.pc = "raised"]

\* fetch_page raises: paginate has no try either, so the exception leaves
\* the generator through the next() that is running, and the generator is
\* closed
FetchRaises(g) ==
    /\ gen[g].pc = "fetching"
    /\ \E e \in FetchErrors :
          raised' = [raised EXCEPT ![g] =
                        Some([error |-> e, pull |-> pulls[g],
                              fetch |-> Len(fetches[g])])]
    /\ gen' = [gen EXCEPT ![g] = [@ EXCEPT !.pc = "failed"]]
    /\ consumer' = IF g = 1 /\ consumer.mode = "collect_all"
                   THEN Propagate(consumer)
                   ELSE consumer
    /\ UNCHANGED <<fetches, pages, yielded, pulls, kwargs, fetch_args>>
    /\ UNCHANGED <<rvars, xvars>>

\* next() on a generator that has returned or raised: StopIteration, and
\* no line of paginate runs
PullAfterEnd(g) ==
    /\ gen[g].pc \in {"finished", "failed"}
    /\ CanPull(g)
    /\ pulls[g] < MaxPulls
    /\ pulls' = [pulls EXCEPT ![g] = @ + 1]
    /\ UNCHANGED <<gen, fetches, pages, yielded, consumer, kwargs,
                   fetch_args, raised>>
    /\ UNCHANGED <<rvars, xvars>>

NextFailing ==
    \/ \E g \in Iterators : GenStart(g)
    \/ \E g \in Iterators : GenResume(g)
    \/ \E g \in Iterators : FetchReturns(g)
    \/ \E g \in Iterators : FetchRaises(g)
    \/ \E g \in Iterators : PullAfterEnd(g)

\* one iterator whose fetches may fail
SpecFailing == InitPaginate /\ [][NextFailing]_vars

\* ------------------------------------------------------------------------
\* Vocabulary of the properties
\* ------------------------------------------------------------------------

IsTimeout(e) == e.transport = "TimeoutException"

IsNetworkFailure(e) == e.transport \in {"TimeoutException", "HTTPError"}

IsStatus(e, code) == e.transport = "response" /\ e.status_code = code

IsRetryable(e) == IsNetworkFailure(e) \/ IsStatus(e, 429)

Done == pc = "done"

Raised(exc) == result.kind = "raise" /\ result.error.exc = exc

\* the response the latest attempt received, when it received one
GotResponse == received.transport = "response"

\* the kind of the error taxonomy an exception belongs to; "none" for an
\* exception outside the taxonomy
KindOf(e) ==
    CASE e.exc = "AuthenticationError" -> "Authentication"
      [] e.exc = "NotFoundError" -> "NotFound"
      [] e.exc = "RateLimitError" -> "RateLimit"
      [] e.exc = "ConstitutionalError" ->
            (CASE e.code = "TIMEOUT" -> "Timeout"
               [] e.code = "HTTP_ERROR" -> "Transport"
               [] e.code = "RETRY_EXHAUSTED" -> "Exhausted"
               [] OTHER -> "Generic")
      [] OTHER -> "none"

\* the retry-after the specification gives a 429: the header's integer, 60
\* when the header is absent or is not an integer
ExpectedRetryAfter(resp) ==
    IF resp.retry_after # None /\ PyInt(The(resp.retry_after)).ok
    THEN PyInt(The(resp.retry_after)).val
    ELSE 60

\* bodies that do not have the shape {error: {message, code, details?}}
ShapelessBodies ==
    {InvalidJsonBody, ArrayBody, EmptyObject, ErrorStringBody}

\* ------------------------------------------------------------------------
\* Properties
\* ------------------------------------------------------------------------

\* Control flow of the loop, whatever a response carries: only a 429, a
\* timeout or a network failure is ever followed by a wait or by another
\* attempt, and the number of waits never exceeds max_retries.
OnlyRetryableRetried ==
    /\ \A i \in 1..Len(history) :
          ~IsRetryable(history[i]) =>
              i = Len(history) /\ Done /\ Len(waits) = i - 1
    /\ max_retries >= 0 => Len(waits) <= max_retries /\ requests <= max_retries + 1
    /\ requests = Len(history)

\* C1: an attempt that received 401 or 404 is the last attempt of the call;
\* when it is the first attempt, exactly one request was made, no wait
\* occurred, and the call raised AuthenticationError (401) or NotFoundError
\* (404).
C1_TerminalStatusesSurfaceTypedError ==
    \A i \in 1..Len(history) :
        (IsStatus(history[i], 401) \/ IsStatus(history[i], 404)) =>
            /\ i = Len(history)
            /\ Done
            /\ i = 1 =>
                 /\ requests = 1
                 /\ waits = <<>>
                 /\ Raised(IF history[i].status_code = 401
                           THEN "AuthenticationError" ELSE "NotFoundError")

\* C2: with max_retries = N >= 0, a call whose attempts all time out ends
\* after exactly N+1 requests by raising the TIMEOUT error; a call whose
\* first N attempts time out and whose attempt N+1 receives a 200 with a
\* JSON payload returns that payload.
C2_TimeoutsExhaustOrSucceed ==
    (Done /\ max_retries >= 0) =>
        /\ (\A i \in 1..Len(history) : IsTimeout(history[i])) =>
              /\ requests = max_retries + 1
              /\ result.kind = "raise"
              /\ result.error.exc = "ConstitutionalError"
              /\ result.error.code = "TIMEOUT"
              /\ result.error.status_code = 408
              /\ result.error.message = "Request timed out"
        /\ ( /\ Len(history) = max_retries + 1
             /\ \A i \in 1..max_retries : IsTimeout(history[i])
             /\ IsStatus(history[max_retries + 1], 200)
             /\ received.response.body.json # "invalid" ) =>
              /\ requests = max_retries + 1
              /\ result = Return(received.response.body)

C2_Witness ==
    /\ Done
    /\ max_retries = 3
    /\ Len(history) = 4
    /\ \A i \in 1..4 : IsTimeout(history[i])
    /\ result.kind = "raise"

\* C3: an attempt with retries < max_retries that receives 429 with
\* retry-after = r (an integer number of seconds) does not end the call and
\* is followed by a wait of exactly r; for [429(retry-after=r), 200] the
\* call returns the 200 payload after exactly two requests and one wait.
C3_RateLimitWaitsRetryAfter ==
    /\ \A i \in 1..Len(history) :
          ( /\ IsStatus(history[i], 429)
            /\ i - 1 < max_retries
            /\ history[i].retry_after # None
            /\ PyInt(The(history[i].retry_after)).ok
            /\ PyInt(The(history[i].retry_after)).val >= 0 ) =>
              /\ i = Len(history) => ~Done
              /\ Len(waits) >= i
              /\ waits[i] = PyInt(The(history[i].retry_after)).val
    /\ ( /\ Done
         /\ Len(history) = 2
         /\ IsStatus(history[1], 429)
         /\ IsStatus(history[2], 200)
         /\ received.response.body.json # "invalid" ) =>
            /\ requests = 2
            /\ Len(waits) = 1
            /\ result = Return(received.response.body)

\* C4: with max_retries = N >= 0, a call whose attempts all receive 429
\* ends after exactly N+1 requests and N waits by raising RateLimitError
\* carrying the retry-after of the last response.
C4_RateLimitExhaustion ==
    ( /\ Done
      /\ max_retries >= 0
      /\ history # <<>>
      /\ \A i \in 1..Len(history) : IsStatus(history[i], 429) ) =>
        /\ requests = max_retries + 1
        /\ Len(waits) = max_retries
        /\ Raised("RateLimitError")
        /\ result.error.retry_after = ExpectedRetryAfter(received.response)

\* C5: a network-level failure at attempt index a < max_retries is followed
\* by a wait of exactly 2^a, after which retries is a + 1; a call whose
\* attempts all fail at network level waits 1, 2, 4, ..., 2^(max_retries-1).
C5_ExponentialBackoff ==
    /\ \A i \in 1..Len(history) :
          (IsNetworkFailure(history[i]) /\ i - 1 < max_retries) =>
              /\ Len(waits) >= i
              /\ waits[i] = 2 ^ (i - 1)
              /\ (i = Len(history) /\ pc = "sleep") => retries = i - 1
              /\ i < Len(history) => retries >= i
    /\ pc = "loop" => retries = Len(waits) /\ Len(history) = retries
    /\ ( /\ Done
         /\ max_retries >= 0
         /\ \A i \in 1..Len(history) : IsNetworkFailure(history[i]) ) =>
            waits = [i \in 1..max_retries |-> 2 ^ (i - 1)]

C5_Witness ==
    /\ Done
    /\ max_retries = 3
    /\ \A i \in 1..Len(history) : IsNetworkFailure(history[i])
    /\ \E i \in 1..Len(history) : ~IsTimeout(history[i])
    /\ waits = <<1, 2, 4>>

\* C6: an attempt that receives a non-2xx status other than 429, 401 and
\* 404 is the last attempt of the call; no wait follows it and the call
\* raises the generic ConstitutionalError carrying that status.
C6_OtherStatusesNotRetried ==
    \A i \in 1..Len(history) :
        (IsStatus(history[i], 400) \/ IsStatus(history[i], 500)) =>
            /\ i = Len(history)
            /\ Done
            /\ Len(waits) = i - 1
            /\ Raised("ConstitutionalError")
            /\ result.error.status_code = history[i].status_code

\* C7: a finished call either returned a value or raised exactly one error
\* of the taxonomy.
C7_ClosedTaxonomy ==
    Done =>
        \/ result.kind = "return"
        \/ result.kind = "raise" /\ KindOf(result.error) # "none"

\* C8: when max_retries + 1 attempts were made and every one of them was a
\* retryable failure, the error raised is the one of the final attempt:
\* RateLimit for a 429, Timeout for a timeout, Transport for a network
\* error.
C8_LastFailureSurfaced ==
    ( /\ Done
      /\ max_retries >= 0
      /\ Len(history) = max_retries + 1
      /\ \A i \in 1..Len(history) : IsRetryable(history[i]) ) =>
        /\ result.kind = "raise"
        /\ KindOf(result.error) =
              (IF IsStatus(history[Len(history)], 429) THEN "RateLimit"
               ELSE IF IsTimeout(history[Len(history)]) THEN "Timeout"
               ELSE "Transport")

\* C9: a 429 whose error envelope can be read follows the retry path with
\* the integer of its retry-after header, and with 60 when the header is
\* absent or is not an integer: the call waits that long, or raises
\* RateLimitError carrying it.
C9_RetryAfterDefault ==
    ( /\ pc \in {"sleep", "done"}
      /\ GotResponse
      /\ received.response.status_code = 429
      /\ EnvelopeReadable(ErrorBodyOf(received.response))
      /\ ExpectedRetryAfter(received.response) >= 0 ) =>
        \/ /\ pc = "sleep"
           /\ waits[Len(waits)] = ExpectedRetryAfter(received.response)
        \/ /\ Done
           /\ Raised("RateLimitError")
           /\ result.error.retry_after = ExpectedRetryAfter(received.response)

\* C10: a non-2xx response whose body lacks the shape
\* {error: {message, code, details?}} ends in a taxonomy error built from
\* the defaults "Request failed" and "ERROR" (status 429 aside, whose
\* header is C9's subject).
C10_ShapelessBodyFallsBack ==
    ( /\ Done
      /\ GotResponse
      /\ ~is_success(received.response)
      /\ received.response.status_code # 429
      /\ received.response.body \in ShapelessBodies ) =>
        /\ result.kind = "raise"
        /\ KindOf(result.error) # "none"
        /\ received.response.status_code = 401 =>
              result.error.message = "Request failed"
        /\ received.response.status_code \notin {401, 404} =>
              /\ result.error.message = "Request failed"
              /\ result.error.code = "ERROR"

\* C11: a 204 ends the call by returning the empty object whatever its
\* body is; any other 2xx with a JSON body ends it by returning that body;
\* a 2xx is the last attempt of the call and no wait follows it.
C11_SuccessResponses ==
    \A i \in 1..Len(history) :
        ( /\ history[i].transport = "response"
          /\ history[i].status_code >= 200
          /\ history[i].status_code <= 299 ) =>
            /\ i = Len(history)
            /\ Done
            /\ Len(waits) = i - 1
            /\ requests = i
            /\ history[i].status_code = 204 => result = Return(EmptyObject)
            /\ ( /\ history[i].status_code # 204
                 /\ received.response.body.json # "invalid" ) =>
                  result = Return(received.response.body)

C11_Witness ==
    /\ Done
    /\ Len(history) = 2
    /\ IsStatus(history[2], 204)
    /\ received.response.body = ArrayBody
    /\ result = Return(EmptyObject)

\* C12: the error a non-2xx response ends the call with is determined by
\* the status and the envelope: RateLimitError with status 429 and a
\* retry_after for 429, AuthenticationError with status 401 for 401,
\* NotFoundError whose resource_id is the path for 404, and otherwise the
\* generic ConstitutionalError with the response's status and the
\* envelope's message, code and details (the defaults when absent); only
\* RateLimitError has a retry_after.
C12_ErrorFromStatusAndEnvelope ==
    (Done /\ GotResponse /\ ~is_success(received.response)) =>
        LET resp == received.response
            env == ErrorBodyOf(resp)
        IN  /\ result.kind = "raise"
            /\ result.error.exc =
                  (CASE resp.status_code = 429 -> "RateLimitError"
                     [] resp.status_code = 401 -> "AuthenticationError"
                     [] resp.status_code = 404 -> "NotFoundError"
                     [] OTHER -> "ConstitutionalError")
            /\ result.error.status_code = resp.status_code
            /\ ("retry_after" \in DOMAIN result.error) =
                  (resp.status_code = 429)
            /\ resp.status_code = 404 => result.error.resource_id = path
            /\ resp.status_code \notin {429, 401, 404} =>
                  /\ result.error.message =
                        GetOr(env.message, "Request failed")
                  /\ result.error.code = GetOr(env.code, "ERROR")
                  /\ result.error.details = GetOr(env.details, EmptyDict)

\* C13: on every attempt, no key whose value is None is among the
\* parameters sent, and every key with another value (0, False and the
\* empty string included) is sent with that value; nothing else is sent.
C13_AbsentParamsNotSent ==
    \A i \in 1..Len(sent) :
        IF arg_params = None THEN sent[i].params = None
        ELSE /\ sent[i].params # None
             /\ The(sent[i].params) \subseteq The(arg_params)
             /\ \A kv \in The(arg_params) :
                   IF kv[2].type = "NoneType"
                   THEN \A w \in The(sent[i].params) : w[1] # kv[1]
                   ELSE kv \in The(sent[i].params)

C13_Witness ==
    /\ Len(sent) = 2
    /\ arg_params =
          Some({<<"status", PyNone>>, <<"limit", PyValue("int", "0")>>})
    /\ sent[2].params = Some({<<"limit", PyValue("int", "0")>>})

\* C14: when the call ends with a RateLimit, Authentication, NotFound or
\* generic error built from a response that carries x-request-id, the
\* error's request_id is that header of that (the latest) response.
C14_RequestIdPropagated ==
    ( /\ Done
      /\ GotResponse
      /\ result.kind = "raise"
      /\ KindOf(result.error) \in
            {"RateLimit", "Authentication", "NotFound", "Generic"}
      /\ received.response.request_id # None ) =>
        result.error.request_id = received.response.request_id

C14_Witness ==
    /\ Done
    /\ Len(history) >= 2
    /\ GotResponse
    /\ received.response.status_code = 500
    /\ received.response.request_id = Some("req-1")
    /\ result.kind = "raise"
    /\ result.error.request_id = Some("req-1")

\* ------------------------------------------------------------------------
\* Properties of pagination
\* ------------------------------------------------------------------------

\* the items of a sequence of pages, in page order and in-page order
RECURSIVE Flatten(_)
Flatten(ps) ==
    IF ps = <<>> THEN <<>>
    ELSE Flatten(SubSeq(ps, 1, Len(ps) - 1)) \o ps[Len(ps)].data

IsPrefix(a, b) == Len(a) <= Len(b) /\ a = SubSeq(b, 1, Len(a))

\* every fetch after the first was given the cursor of the page before it
CursorChain(g) ==
    \A i \in 1..Len(fetches[g]) :
        fetches[g][i] = IF i = 1 THEN None ELSE pages[g][i - 1].cursor

CollectAll == consumer.mode = "collect_all"

Returned == CollectAll /\ consumer.pc = "returned"

\* C15: an iterator that has been consumed to its end over pages P1..Pn has
\* made exactly n fetches, Pn is the only page with has_more = false, the
\* items delivered are the concatenation of P1.data..Pn.data, the first
\* fetch had no cursor and fetch i+1 had the cursor of Pi.
C15_FullConsumption ==
    \A g \in Iterators :
        gen[g].pc = "finished" =>
            /\ Len(pages[g]) >= 1
            /\ Len(fetches[g]) = Len(pages[g])
            /\ \A i \in 1..Len(pages[g]) :
                  pages[g][i].has_more = (i < Len(pages[g]))
            /\ yielded[g] = Flatten(pages[g])
            /\ CursorChain(g)

C15_Witness ==
    /\ gen[1].pc = "finished"
    /\ yielded[1] = <<"a", "b", "c">>
    /\ fetches[1] = <<None, Some("c1"), Some("c2")>>
    /\ pages[1][3].data = <<>>

\* C16: no fetch is made before the first next(); a fetch is in progress
\* only while a next() is waiting for an item and every item of the pages
\* fetched before has been delivered; while the consumer holds item k and
\* has not asked for more, the fetches made are exactly those up to the
\* page that contains item k.
C16_PullBased ==
    \A g \in Iterators :
        /\ gen[g].pc \in {"none", "created"} =>
              fetches[g] = <<>> /\ pulls[g] = 0
        /\ gen[g].pc = "fetching" =>
              /\ Len(fetches[g]) = Len(pages[g]) + 1
              /\ yielded[g] = Flatten(pages[g])
              /\ pulls[g] = Len(yielded[g]) + 1
        /\ gen[g].pc = "suspended" =>
              /\ pulls[g] = Len(yielded[g])
              /\ Len(fetches[g]) = Len(pages[g])
              /\ Len(yielded[g]) <= Len(Flatten(pages[g]))
              /\ Len(yielded[g]) >
                    Len(Flatten(SubSeq(pages[g], 1, Len(pages[g]) - 1)))

C16_Witness ==
    /\ gen[1].pc = "suspended"
    /\ yielded[1] = <<"a", "b">>
    /\ Len(fetches[1]) = 1
    /\ pages[1][1].has_more

\* C17: a page with has_more = false is the last page fetched, whatever
\* its cursor is, and once its items are delivered the next next() ends
\* the iterator without a fetch; an iterator ends only after such a page.
C17_TerminatesOnHasMoreFalse ==
    \A g \in Iterators :
        /\ \A i \in 1..Len(pages[g]) :
              ~pages[g][i].has_more =>
                  /\ i = Len(pages[g])
                  /\ Len(fetches[g]) = i
                  /\ gen[g].pc \in {"suspended", "finished"}
                  /\ pulls[g] > Len(Flatten(pages[g])) =>
                        gen[g].pc = "finished"
        /\ gen[g].pc = "finished" =>
              /\ Len(pages[g]) >= 1
              /\ ~pages[g][Len(pages[g])].has_more

C17_Witness ==
    /\ gen[1].pc = "finished"
    /\ Len(pages[1]) = 2
    /\ pages[1][2].cursor = Some("c2")
    /\ pages[1][2].data = <<"c">>

\* C18: collect_all with a maximum item count m makes no fetch after the
\* first page at which the cumulative item count reaches m.
C18_MinimumFetches ==
    (CollectAll /\ consumer.max_items # None) =>
        \A i \in 1..Len(pages[1]) :
            Len(Flatten(SubSeq(pages[1], 1, i))) >= The(consumer.max_items)
                => Len(fetches[1]) <= i

\* C19: collect_all with a maximum m >= 0 returns the first min(m, total)
\* items of the sequence, never more than m; without a maximum it returns
\* all items.
C19_BoundedResult ==
    Returned =>
        /\ IsPrefix(consumer.items, Flatten(pages[1]))
        /\ IF consumer.max_items = None
           THEN gen[1].pc = "finished" /\ consumer.items = Flatten(pages[1])
           ELSE /\ Len(consumer.items) <= The(consumer.max_items)
                /\ \/ Len(consumer.items) = The(consumer.max_items)
                   \/ /\ gen[1].pc = "finished"
                      /\ consumer.items = Flatten(pages[1])

\* C20: each of two iterators over the same fetcher, however their
\* consumption is interleaved, makes a fetch at its first next(), with no
\* cursor, gives every later fetch the cursor of its own previous page, and
\* delivers the items of its own pages.
C20_IteratorsIndependent ==
    \A g \in Iterators :
        /\ gen[g].pc \notin {"none", "created"} => Len(fetches[g]) >= 1
        /\ CursorChain(g)
        /\ Len(pages[g]) <= Len(fetches[g])
        /\ Len(fetches[g]) <= Len(pages[g]) + 1
        /\ IsPrefix(yielded[g], Flatten(pages[g]))

C20_Witness ==
    /\ Len(fetches[1]) = 2
    /\ Len(fetches[2]) = 1
    /\ pages[1][1].cursor = Some("c1")
    /\ pages[2] # <<>>
    /\ pages[2][1].cursor = Some("c2")
    /\ fetches[1][2] = Some("c1")
    /\ fetches[2][1] = None

\* ------------------------------------------------------------------------
\* WebhooksResource.verify_signature (resources/webhooks.py)
\* ------------------------------------------------------------------------

\* largest number of verify_signature calls the model follows
MaxVerifyCalls == 2

\* resolution of the clock: time.time() is a float, the model counts ticks
TicksPerSecond == 2

\* number of hex characters of a digest in the model (SHA-256 has 64)
DigestLen == 2

HexDigits == <<"0", "1", "2", "3", "4", "5", "6", "7", "8", "9",
               "a", "b", "c", "d", "e", "f">>

\* the characters of keys and messages, by code
Chars == HexDigits \o <<".", "-", "{", "}", "k", "t", "v", "x", "=", ",">>

Code(c) == CHOOSE i \in 1..Len(Chars) : Chars[i] = c

\* str.split(sep): the pieces of s between the occurrences of sep
RECURSIVE Split(_, _)
Split(s, sep) ==
    IF \A i \in 1..Len(s) : s[i] # sep THEN <<s>>
    ELSE LET i == CHOOSE k \in 1..Len(s) :
                     s[k] = sep /\ \A j \in 1..(k - 1) : s[j] # sep
         IN  <<SubSeq(s, 1, i - 1)>> \o Split(SubSeq(s, i + 1, Len(s)), sep)

\* p.split(sep, 1): one piece when sep does not occur, else the pieces
\* before and after its first occurrence
SplitOnce(p, sep) ==
    IF \A i \in 1..Len(p) : p[i] # sep THEN <<p>>
    ELSE LET i == CHOOSE k \in 1..Len(p) :
                     p[k] = sep /\ \A j \in 1..(k - 1) : p[j] # sep
         IN  <<SubSeq(p, 1, i - 1), SubSeq(p, i + 1, Len(p))>>

\* dict(items) for items of length 2: a later item replaces an earlier one
\* with the same key
DictOf(items) ==
    { <<items[i][1], items[i][2]>> :
        i \in { k \in 1..Len(items) :
                  \A j \in (k + 1)..Len(items) : items[j][1] # items[k][1] } }

HasKey(d, key) == \E kv \in d : kv[1] = key

\* d[key]
Item(d, key) == (CHOOSE kv \in d : kv[1] = key)[2]

\* str(n) of an integer, as f"{timestamp}" formats it
RECURSIVE DecimalOf(_)
DecimalOf(n) ==
    IF n < 10 THEN <<Digits[n + 1]>>
    ELSE DecimalOf(n \div 10) \o <<Digits[(n % 10) + 1]>>

PyStr(n) == IF n < 0 THEN <<"-">> \o DecimalOf(0 - n) ELSE DecimalOf(n)

Abs(x) == IF x < 0 THEN 0 - x ELSE x

\* a keyed checksum that folds the key and then the message
RECURSIVE Fold(_, _)
Fold(h, s) ==
    IF s = <<>> THEN h
    ELSE Fold((31 * h + Code(s[1]) + 7) % (16 ^ DigestLen), Tail(s))

\* the hex digits of h, most significant first, padded to n characters
RECURSIVE HexOf(_, _)
HexOf(h, n) ==
    IF n = 0 THEN <<>>
    ELSE HexOf(h \div 16, n - 1) \o <<HexDigits[(h % 16) + 1]>>

\* a digest that does not depend on the key
HmacUnkeyed(key, msg) == HexOf(Fold(0, msg), DigestLen)

\* hmac.new(key, msg, hashlib.sha256).hexdigest(): a lowercase hex string
\* determined by key and msg (the keyed checksum stands for HMAC-SHA256)
Hmac(key, msg) == HexOf(Fold(Fold(0, key), msg), DigestLen)

\* hmac.compare_digest on two ASCII strings
compare_digest(a, b) == a = b

KeyT == <<"t">>

KeyV1 == <<"v", "1">>

\* a freshness test that rejects old timestamps only
StaleOnlyPast(now, timestamp, tolerance) ==
    now - TicksPerSecond * timestamp > TicksPerSecond * tolerance

\* abs(time.time() - timestamp) > tolerance, with now in ticks
Stale(now, timestamp, tolerance) ==
    Abs(now - TicksPerSecond * timestamp) > TicksPerSecond * tolerance

\* a comparison that looks at the first character only
CompareFirst(provided_sig, expected_sig) ==
    provided_sig # <<>> /\ provided_sig[1] = expected_sig[1]

\* return hmac.compare_digest(provided_sig, expected_sig), after the
\* expected signature is computed over f"{timestamp}.{payload}"
SignatureMatches(provided_sig, expected_sig) ==
    compare_digest(provided_sig, expected_sig)

\* a parse that takes the first field for t and the second for v1
DictByPosition(items) ==
    { <<KeyT, items[i][2]>> : i \in {1} \cap (1..Len(items)) }
        \cup { <<KeyV1, items[i][2]>> : i \in {2} \cap (1..Len(items)) }

\* parts = dict(p.split("=", 1) for p in signature.split(","))
PartsOf(items) == DictOf(items)

\* the body of the try block of verify_signature: the value it returns or
\* the exception it raises
VerifyBody(payload, signature, secret, tolerance, now) ==
    LET pieces == Split(signature, ",")
        items == [i \in 1..Len(pieces) |-> SplitOnce(pieces[i], "=")]
    IN  IF \E i \in 1..Len(items) : Len(items[i]) # 2
        THEN Raise(BuiltinError("ValueError"))
        ELSE LET parts == PartsOf(items) IN
             IF ~HasKey(parts, KeyT) THEN Raise(BuiltinError("KeyError"))
             ELSE IF ~PyInt(Item(parts, KeyT)).ok
             THEN Raise(BuiltinError("ValueError"))
             ELSE IF ~HasKey(parts, KeyV1)
             THEN Raise(BuiltinError("KeyError"))
             ELSE LET timestamp == PyInt(Item(parts, KeyT)).val
                      provided_sig == Item(parts, KeyV1)
                      signed_payload == PyStr(timestamp) \o <<".">> \o payload
                  IN  IF Stale(now, timestamp, tolerance) THEN Return(FALSE)
                      ELSE Return(SignatureMatches(provided_sig,
                                      Hmac(secret, signed_payload)))

\* an except clause for ValueError only
CatchValueError(r) ==
    IF r.kind = "raise" /\ r.error.exc = "ValueError" THEN Return(FALSE)
    ELSE r

\* except Exception: return False
CatchException(r) == IF r.kind = "raise" THEN Return(FALSE) ELSE r

\* a verifier that accepts a header once: it rejects a header that an
\* earlier call accepted
VerifyOnce(payload, signature, secret, tolerance, now) ==
    IF \E i \in 1..Len(verdicts) :
          verdicts[i].signature = signature /\ verdicts[i].outcome = Return(TRUE)
    THEN Return(FALSE)
    ELSE CatchException(VerifyBody(payload, signature, secret, tolerance, now))

\* WebhooksResource.verify_signature, called when time.time() is now
verify_signature(payload, signature, secret, tolerance, now) ==
    CatchException(VerifyBody(payload, signature, secret, tolerance, now))

\* ------------------------------------------------------------------------
\* Webhook deliveries and the calls of verify_signature
\* ------------------------------------------------------------------------

\* sep.join(fields)
RECURSIVE Join(_, _)
Join(fields, sep) ==
    IF fields = <<>> THEN <<>>
    ELSE IF Len(fields) = 1 THEN fields[1]
    ELSE fields[1] \o <<sep>> \o Join(Tail(fields), sep)

\* raw request bodies
Payloads == {<<"{", "}">>, <<"{", "a", "}">>}

\* webhook secrets
Secrets == {<<"k", "1">>, <<"k", "2">>}

\* the tolerance argument, in seconds (300 is its default)
Tolerances == {0, 300}

\* the t values of a header: seconds around the clock's 1000, one with a
\* leading zero and one that is not a number
TimestampTexts ==
    {<<"6", "9", "9">>, <<"7", "0", "0">>, <<"0", "7", "0", "0">>,
     <<"1", "0", "0", "0">>, <<"1", "3", "0", "0">>, <<"1", "3", "0", "1">>,
     <<"x">>}

\* readings of time.time(): 1000 s and the ticks of the second after it
Clocks == { 1000 * TicksPerSecond + d : d \in 0..TicksPerSecond }

\* the signature a sender computes over "<t>.<payload>"
Signed(secret, t, payload) == Hmac(secret, t \o <<".">> \o payload)

\* sig with the character at position i replaced by another hex digit
Mutated(sig, i) ==
    [sig EXCEPT ![i] = IF sig[i] = "0" THEN "f" ELSE "0"]

\* the v1 values a header may carry for timestamp text t: the signature
\* over the text, the signature over the number's decimal form, that
\* signature with one character changed, the signature under another
\* secret, and nothing
SignatureTexts(payload, secret, t) ==
    {Signed(secret, t, payload), <<>>}
        \cup { Signed(k, t, payload) : k \in Secrets }
        \cup (IF PyInt(t).ok
              THEN LET sig == Signed(secret, PyStr(PyInt(t).val), payload)
                   IN  {sig} \cup { Mutated(sig, i) : i \in 1..Len(sig) }
              ELSE {})

\* the header fields of a delivery: t and v1 in the documented order, one
\* of them missing, none at all, and a part without "="
FieldsFor(t, sig) ==
    LET tf == KeyT \o <<"=">> \o t
        vf == KeyV1 \o <<"=">> \o sig
    IN  {<<tf, vf>>, <<tf>>, <<vf>>, <<>>, <<KeyT, vf>>}

\* a correctly signed header with an extra field, and one with a second t
\* field
LongFieldLists(payload, secret) ==
    LET t == <<"7", "0", "0">>
        tf == KeyT \o <<"=">> \o t
        vf == KeyV1 \o <<"=">> \o Signed(secret, t, payload)
    IN  {<<tf, vf, <<"v", "0", "=", "0">>>>, <<<<"t", "=", "1">>, vf, tf>>}

FieldLists(payload, secret) ==
    LongFieldLists(payload, secret) \cup
    UNION { UNION { FieldsFor(t, sig) :
                      sig \in SignatureTexts(payload, secret, t) }
            : t \in TimestampTexts }

Deliveries ==
    UNION { { Delivery(payload, fields, secret, tolerance) :
                fields \in FieldLists(payload, secret),
                tolerance \in Tolerances }
            : payload \in Payloads, secret \in Secrets }

\* the header fields in any order
Arrangements(fields) ==
    { [i \in 1..Len(fields) |-> fields[pi[i]]] :
        pi \in Permutations(1..Len(fields)) }

\* a record of one call of verify_signature
Verdict(signature, now, outcome) ==
    [signature |-> signature, now |-> now, outcome |-> outcome]

\* a delivery arrives; nothing was verified yet; no _request and no
\* pagination is followed
InitVerify ==
    /\ max_retries = DEFAULT_MAX_RETRIES
    /\ path = "/v1/bills"
    /\ pc = "idle"
    /\ retries = 0
    /\ last_error = None
    /\ received = [transport |-> "none"]
    /\ result = Pending
    /\ requests = 0
    /\ waits = <<>>
    /\ history = <<>>
    /\ arg_params = None
    /\ params = None
    /\ sent = <<>>
    /\ method = "GET"
    /\ json = None
    /\ PagIdle
    /\ clock = 1000 * TicksPerSecond
    /\ delivery \in Deliveries
    /\ verdicts = <<>>
    /\ calls = [k \in Threads |-> NoCall]

\* verify_signature(payload, signature, secret, tolerance) is called with
\* the delivery's header, its fields in some order
Verify ==
    /\ Len(verdicts) < MaxVerifyCalls
    /\ \E fields \in Arrangements(delivery.fields) :
          LET signature == Join(fields, ",") IN
          verdicts' = Append(verdicts,
              Verdict(signature, clock,
                  verify_signature(delivery.payload, signature,
                                   delivery.secret, delivery.tolerance,
                                   clock)))
    /\ UNCHANGED <<clock, delivery, calls>>
    /\ UNCHANGED <<rvars, pvars>>

\* time passes
Tick ==
    /\ \E later \in Clocks : later > clock /\ clock' = later
    /\ UNCHANGED <<delivery, verdicts, calls>>
    /\ UNCHANGED <<rvars, pvars>>

NextVerify ==
    \/ Verify
    \/ Tick

SpecVerify == InitVerify /\ [][NextVerify]_vars

\* ------------------------------------------------------------------------
\* Properties of verify_signature
\* ------------------------------------------------------------------------

TField(t) == KeyT \o <<"=">> \o t

VField(sig) == KeyV1 \o <<"=">> \o sig

\* the values of the fields of the form key=value
ValuesOf(fields, key) ==
    { SubSeq(fields[k], Len(key) + 2, Len(fields[k])) :
        k \in { n \in 1..Len(fields) :
                  /\ Len(fields[n]) > Len(key)
                  /\ SubSeq(fields[n], 1, Len(key) + 1) = key \o <<"=">> } }

\* the header consists of the fields t=t and v1=sig, in either order
IsPair(fields, t, sig) ==
    fields \in {<<TField(t), VField(sig)>>, <<VField(sig), TField(t)>>}

\* |now - timestamp| <= tolerance, for now in ticks
Fresh(now, timestamp, tolerance) ==
    Abs(now - TicksPerSecond * timestamp) <= TicksPerSecond * tolerance

\* the signature the delivery's secret gives "<timestamp>.<payload>"
Expected(timestamp) ==
    Hmac(delivery.secret, PyStr(timestamp) \o <<".">> \o delivery.payload)

\* a and b differ in exactly one character
OneCharOff(a, b) ==
    /\ Len(a) = Len(b)
    /\ Cardinality({ i \in 1..Len(a) : a[i] # b[i] }) = 1

\* C21: a call with the header t=T,v1=S, T an integer with
\* |now - T| <= tolerance, returns true when S is the hex HMAC of
\* "T.payload" under the secret, and false when S differs from that
\* signature in exactly one character.
C21_ValidSignatureAccepted ==
    \A i \in 1..Len(verdicts) :
      \A t \in ValuesOf(delivery.fields, KeyT),
         sig \in ValuesOf(delivery.fields, KeyV1) :
        ( /\ IsPair(delivery.fields, t, sig)
          /\ verdicts[i].signature = Join(<<TField(t), VField(sig)>>, ",")
          /\ PyInt(t).ok
          /\ Fresh(verdicts[i].now, PyInt(t).val, delivery.tolerance) ) =>
            /\ sig = Expected(PyInt(t).val) =>
                  verdicts[i].outcome = Return(TRUE)
            /\ OneCharOff(sig, Expected(PyInt(t).val)) =>
                  verdicts[i].outcome = Return(FALSE)

C21_Witness ==
    /\ delivery.tolerance = 300
    /\ delivery.fields =
          <<TField(<<"0", "7", "0", "0">>), VField(Expected(700))>>
    /\ Len(verdicts) = 1
    /\ verdicts[1].signature = Join(delivery.fields, ",")
    /\ verdicts[1].now = 1000 * TicksPerSecond
    /\ verdicts[1].outcome = Return(TRUE)

\* C22: a call whose header carries t=T and v1=S with |now - T| > tolerance
\* returns false, for T before and after now alike and also when S is the
\* correct signature for T; a correctly signed header with
\* |now - T| <= tolerance is not rejected.
C22_StaleTimestampRejected ==
    \A i \in 1..Len(verdicts) :
      \A t \in ValuesOf(delivery.fields, KeyT),
         sig \in ValuesOf(delivery.fields, KeyV1) :
        (IsPair(delivery.fields, t, sig) /\ PyInt(t).ok) =>
            IF Fresh(verdicts[i].now, PyInt(t).val, delivery.tolerance)
            THEN sig = Expected(PyInt(t).val) =>
                    verdicts[i].outcome # Return(FALSE)
            ELSE verdicts[i].outcome = Return(FALSE)

C22_Witness ==
    /\ delivery.tolerance = 300
    /\ IsPair(delivery.fields, <<"6", "9", "9">>, Expected(699))
    /\ Len(verdicts) = 1
    /\ verdicts[1].now = 1000 * TicksPerSecond
    /\ verdicts[1].outcome = Return(FALSE)

\* the header is malformed: it is empty, has no t field, has no v1 field,
\* has a part without "=", or has no integer for t
Malformed(fields) ==
    \/ fields = <<>>
    \/ ValuesOf(fields, KeyT) = {}
    \/ ValuesOf(fields, KeyV1) = {}
    \/ \E k \in 1..Len(fields) : \A n \in 1..Len(fields[k]) : fields[k][n] # "="
    \/ \A t \in ValuesOf(fields, KeyT) : ~PyInt(t).ok

\* C23: every call of verify_signature returns a boolean and raises
\* nothing; for a malformed header (empty, t missing, v1 missing, a part
\* without "=", a timestamp that is not an integer) it returns false.
C23_NeverRaises ==
    \A i \in 1..Len(verdicts) :
        /\ verdicts[i].outcome.kind = "return"
        /\ verdicts[i].outcome.value \in BOOLEAN
        /\ Malformed(delivery.fields) => verdicts[i].outcome = Return(FALSE)

C23_Witness ==
    /\ delivery.fields = <<TField(<<"7", "0", "0">>)>>
    /\ Len(verdicts) = 1
    /\ verdicts[1].signature = <<"t", "=", "7", "0", "0">>
    /\ verdicts[1].outcome = Return(FALSE)

\* the delivery's header is t=T,v1=S with S the signature of "T.payload"
ValidDelivery ==
    \E t \in ValuesOf(delivery.fields, KeyT),
       sig \in ValuesOf(delivery.fields, KeyV1) :
        /\ IsPair(delivery.fields, t, sig)
        /\ PyInt(t).ok
        /\ sig = Expected(PyInt(t).val)

\* the timestamp of a valid delivery
TimestampOf(fields) ==
    PyInt(CHOOSE t \in ValuesOf(fields, KeyT) : TRUE).val

\* C24, as stated: any two calls that verify the same valid payload,
\* header and secret return the same boolean.
C24_SameVerdictAlways ==
    ValidDelivery =>
        \A i, j \in 1..Len(verdicts) :
            verdicts[i].signature = verdicts[j].signature =>
                verdicts[i].outcome = verdicts[j].outcome

\* C24, amended: two calls with the same payload, header, secret and
\* tolerance return the same boolean when they are made at the same time,
\* and, for a valid header, whenever the timestamp is within the tolerance
\* at both times or at neither; no call changes what a later call returns.
C24_SameVerdictWhileFresh ==
    \A i, j \in 1..Len(verdicts) :
        verdicts[i].signature = verdicts[j].signature =>
            /\ verdicts[i].now = verdicts[j].now =>
                  verdicts[i].outcome = verdicts[j].outcome
            /\ ( /\ ValidDelivery
                 /\ Fresh(verdicts[i].now, TimestampOf(delivery.fields),
                          delivery.tolerance)
                      = Fresh(verdicts[j].now, TimestampOf(delivery.fields),
                              delivery.tolerance) ) =>
                  verdicts[i].outcome = verdicts[j].outcome

C24_Witness ==
    /\ ValidDelivery
    /\ Len(verdicts) = 2
    /\ verdicts[1].signature = verdicts[2].signature
    /\ verdicts[1].now < verdicts[2].now
    /\ verdicts[1].outcome = Return(TRUE)
    /\ verdicts[2].outcome = Return(TRUE)

\* the positions of the fields of the form key=value
FieldsWithKey(fields, key) ==
    { n \in 1..Len(fields) :
        /\ Len(fields[n]) > Len(key)
        /\ SubSeq(fields[n], 1, Len(key) + 1) = key \o <<"=">> }

\* C25: calls made at the same time with the fields t=T and v1=S in either
\* order return the same boolean, for every T and S; a header that has one
\* t field and one v1 field among other key=value fields, in any order, is
\* accepted when T is within the tolerance and S is the signature.
C25_FieldOrderIrrelevant ==
    /\ (\E t \in ValuesOf(delivery.fields, KeyT),
           sig \in ValuesOf(delivery.fields, KeyV1) :
             IsPair(delivery.fields, t, sig)) =>
          \A i, j \in 1..Len(verdicts) :
              verdicts[i].now = verdicts[j].now =>
                  verdicts[i].outcome = verdicts[j].outcome
    /\ ( /\ Cardinality(FieldsWithKey(delivery.fields, KeyT)) = 1
         /\ Cardinality(FieldsWithKey(delivery.fields, KeyV1)) = 1
         /\ ~Malformed(delivery.fields) ) =>
          \A i \in 1..Len(verdicts) :
              ( /\ Fresh(verdicts[i].now, TimestampOf(delivery.fields),
                         delivery.tolerance)
                /\ ValuesOf(delivery.fields, KeyV1) =
                      {Expected(TimestampOf(delivery.fields))} ) =>
                  verdicts[i].outcome = Return(TRUE)

C25_Witness ==
    /\ Len(delivery.fields) = 2
    /\ Len(verdicts) = 2
    /\ verdicts[1].signature = Join(delivery.fields, ",")
    /\ verdicts[2].signature =
          Join(<<delivery.fields[2], delivery.fields[1]>>, ",")
    /\ verdicts[1].now = verdicts[2].now
    /\ verdicts[1].outcome = Return(TRUE)
    /\ verdicts[2].outcome = Return(TRUE)

\* ------------------------------------------------------------------------
\* Logical calls of two threads on one HttpClient (utils/request.py)
\* ------------------------------------------------------------------------

\* largest HttpClient.max_retries of the client the two threads share
MaxCallRetries == 2

\* the responses the threads' attempts receive: 200, 500, and 429 with and
\* without a retry-after header
CallResponses ==
    { resp \in Responses :
        /\ resp.body = EmptyObject
        /\ resp.request_id = None
        /\ \/ resp.status_code \in {200, 500} /\ resp.retry_after = None
           \/ /\ resp.status_code = 429
              /\ resp.retry_after \in {None, Some(<<"2">>)} }

\* a frame at its while loop: retries = 0 and last_error = None are local
\* variables of the call
StartedCall(cpath) == CallFrame("loop", cpath, 0, None, Pending, <<>>, <<>>)

\* the frame returns or raises
FrameFinish(f, r) == [f EXCEPT !.result = r, !.pc = "done"]

\* time.sleep(seconds) in the frame's thread
FrameSleep(f, seconds) ==
    IF seconds < 0 THEN FrameFinish(f, Raise(BuiltinError("ValueError")))
    ELSE [f EXCEPT !.waits = Append(@, seconds), !.pc = "sleep"]

\* the except clauses applied to what the try block did
FrameDispatch(f, r) ==
    IF r.kind = "raise" /\ r.error.exc = "RateLimitError"
          /\ f.retries < max_retries
    THEN FrameSleep(f, r.error.retry_after)
    ELSE FrameFinish(f, r)

\* an attempt of the frame that receives resp
AttemptResponse(f, resp) ==
    FrameDispatch(
        [f EXCEPT !.history = Append(@, Entry("response", resp.status_code,
                                           resp.retry_after))],
        TryBody(resp, f.path))

\* an attempt of the frame that raises transport
AttemptFails(f, transport, error) ==
    LET g == [f EXCEPT !.history = Append(@, Entry(transport, 0, None)),
                       !.last_error = Some(error)]
    IN  IF f.retries < max_retries THEN FrameSleep(g, Pow2(f.retries))
        ELSE FrameFinish(g, Raise(error))

\* a retry counter kept on the client: every running call sees the count
\* thread k has reached
SharedCounter(k, f) ==
    [j \in Threads |->
        IF j = k THEN f
        ELSE IF calls[j].pc \in {"loop", "sleep"}
             THEN [calls[j] EXCEPT !.retries = f.retries]
             ELSE calls[j]]

\* the frames after thread k's frame becomes f: retries, last_error and the
\* rest are locals of the call, no other frame changes
OwnFrame(k, f) == [calls EXCEPT ![k] = f]

ThreadResponse(k) ==
    /\ calls[k].pc = "loop"
    /\ calls[k].retries <= max_retries
    /\ \E resp \in CallResponses :
          calls' = OwnFrame(k, AttemptResponse(calls[k], resp))
    /\ UNCHANGED <<clock, delivery, verdicts>>
    /\ UNCHANGED <<rvars, pvars>>

ThreadFails(k, transport, error) ==
    /\ calls[k].pc = "loop"
    /\ calls[k].retries <= max_retries
    /\ calls' = OwnFrame(k, AttemptFails(calls[k], transport, error))
    /\ UNCHANGED <<clock, delivery, verdicts>>
    /\ UNCHANGED <<rvars, pvars>>

ThreadTimeout(k) == ThreadFails(k, "TimeoutException", TimeoutError)

ThreadNetworkError(k) == ThreadFails(k, "HTTPError", NetworkError)

\* time.sleep returns in thread k: retries += 1; continue
ThreadSleepReturns(k) ==
    /\ calls[k].pc = "sleep"
    /\ calls' = OwnFrame(k, [calls[k] EXCEPT !.retries = @ + 1,
                                             !.pc = "loop"])
    /\ UNCHANGED <<clock, delivery, verdicts>>
    /\ UNCHANGED <<rvars, pvars>>

\* the while condition is false in thread k
ThreadLoopExit(k) ==
    /\ calls[k].pc = "loop"
    /\ ~(calls[k].retries <= max_retries)
    /\ calls' = OwnFrame(k, FrameFinish(calls[k],
                    IF calls[k].last_error # None
                    THEN Raise(The(calls[k].last_error))
                    ELSE Raise(ExhaustedError)))
    /\ UNCHANGED <<clock, delivery, verdicts>>
    /\ UNCHANGED <<rvars, pvars>>

\* two threads have entered _request on one client; the rest is idle
InitCalls ==
    /\ max_retries \in {0 - 1} \cup (0..MaxCallRetries)
    /\ path = "/v1/bills"
    /\ pc = "idle"
    /\ retries = 0
    /\ last_error = None
    /\ received = [transport |-> "none"]
    /\ result = Pending
    /\ requests = 0
    /\ waits = <<>>
    /\ history = <<>>
    /\ arg_params = None
    /\ params = None
    /\ sent = <<>>
    /\ method = "GET"
    /\ json = None
    /\ PagIdle
    /\ clock = 0
    /\ delivery = NoDelivery
    /\ verdicts = <<>>
    /\ calls = [k \in Threads |-> StartedCall("/v1/bills")]

NextCalls ==
    \/ \E k \in Threads : ThreadResponse(k)
    \/ \E k \in Threads : ThreadTimeout(k)
    \/ \E k \in Threads : ThreadNetworkError(k)
    \/ \E k \in Threads : ThreadSleepReturns(k)
    \/ \E k \in Threads : ThreadLoopExit(k)

SpecCalls == InitCalls /\ [][NextCalls]_vars

\* ------------------------------------------------------------------------
\* Properties of the retry loop across and within calls
\* ------------------------------------------------------------------------

\* the wait that follows attempt i of a call when it received e and is
\* retried: the retry-after of a 429 (60 without the header), 2^(i-1)
\* after a network failure
WaitAfter(e, i) ==
    IF IsStatus(e, 429)
    THEN (IF e.retry_after = None THEN 60 ELSE PyInt(The(e.retry_after)).val)
    ELSE 2 ^ (i - 1)

\* how a call ends whose last attempt received e, a response with an empty
\* JSON object as its body and no request id
EndsAs(r, e) ==
    CASE IsStatus(e, 200) -> r = Return(EmptyObject)
      [] IsStatus(e, 500) ->
            r = Raise(ConstitutionalError("Request failed", "ERROR", 500,
                                          None, None))
      [] IsStatus(e, 429) ->
            r = Raise(RateLimitError("Request failed", WaitAfter(e, 1), None))
      [] IsTimeout(e) -> r = Raise(TimeoutError)
      [] OTHER -> r = Raise(NetworkError)

\* C26: in every interleaving of two calls on one client, each call's
\* retry counter, waits and result are those its own attempts determine:
\* the counter equals the number of its own completed waits, wait i is the
\* one its own attempt i asks for, it is retried while and only while its
\* own retries are below max_retries, its result is that of its own last
\* attempt, and two calls that received the same are in the same state.
C26_CallsIndependent ==
    /\ \A k \in Threads :
          LET f == calls[k]
              n == Len(f.history)
          IN  /\ f.pc = "loop" => f.retries = n /\ Len(f.waits) = n
              /\ f.pc = "sleep" => f.retries = n - 1 /\ Len(f.waits) = n
              /\ (f.pc = "done" /\ n >= 1) =>
                    /\ f.retries = n - 1
                    /\ Len(f.waits) = n - 1
                    /\ EndsAs(f.result, f.history[n])
                    /\ IsRetryable(f.history[n]) => n = max_retries + 1
              /\ max_retries >= 0 => n <= max_retries + 1
              /\ \A i \in 1..Len(f.waits) :
                    /\ IsRetryable(f.history[i])
                    /\ f.waits[i] = WaitAfter(f.history[i], i)
    /\ \A j, k \in Threads :
          (calls[j].history = calls[k].history /\ calls[j].pc = calls[k].pc)
              => calls[j] = calls[k]

C26_Witness ==
    /\ max_retries = 2
    /\ calls[1].pc = "done"
    /\ calls[1].waits = <<1, 2>>
    /\ calls[1].result = Raise(TimeoutError)
    /\ calls[2].pc = "sleep"
    /\ calls[2].retries = 1
    /\ calls[2].waits = <<2, 60>>

\* C27: with max_retries = N >= 0 a call makes at most N+1 attempts, and at
\* least one before it ends, whatever mix of 429s, timeouts and connection
\* errors it receives; the one counter retries starts at 0 and equals the
\* number of waits, after a 429 or after a network failure, that have
\* returned.
C27_OneSharedCounter ==
    /\ retries >= 0
    /\ requests = 0 => retries = 0
    /\ pc = "sleep" => retries = Len(waits) - 1
    /\ pc \in {"loop", "done"} => retries = Len(waits)
    /\ max_retries >= 0 =>
          /\ requests <= max_retries + 1
          /\ retries <= max_retries
          /\ Done => requests >= 1

C27_Witness ==
    /\ Done
    /\ max_retries = 3
    /\ requests = 4
    /\ retries = 3
    /\ IsStatus(history[1], 429)
    /\ IsTimeout(history[2])
    /\ history[3].transport = "HTTPError"
    /\ IsStatus(history[4], 429)

\* C28: in a call that has been rate-limited, a network failure at attempt
\* i that is retried is followed by a wait of 2^(i-1), i-1 being the number
\* of all earlier retries of the call, those after a 429 included; for
\* [429(retry-after=r), timeout, 200] the waits are r and then 2.
C28_BackoffCountsAllRetries ==
    /\ \A i \in 1..Len(history) :
          ( /\ IsNetworkFailure(history[i])
            /\ i - 1 < max_retries
            /\ \E j \in 1..(i - 1) : IsStatus(history[j], 429) ) =>
              /\ Len(waits) >= i
              /\ waits[i] = 2 ^ Len(SubSeq(waits, 1, i - 1))
    /\ ( /\ Len(history) >= 3
         /\ IsStatus(history[1], 429)
         /\ IsTimeout(history[2])
         /\ IsStatus(history[3], 200) ) =>
            /\ waits = <<WaitAfter(history[1], 1), 2>>
            /\ Done

C28_Witness ==
    /\ Done
    /\ Len(history) = 3
    /\ IsStatus(history[1], 429)
    /\ history[1].retry_after = None
    /\ IsTimeout(history[2])
    /\ IsStatus(history[3], 200)
    /\ waits = <<60, 2>>
    /\ result.kind = "return"

\* C29, as stated: a finished call has made one wait less than attempts.
C29_WaitsOneLessThanAttempts ==
    Done => Len(waits) = requests - 1

\* C29, amended: a call that has made at least one attempt has, when it
\* ends, made one wait less than attempts; no wait is made before the
\* first attempt; while a wait goes on, or has returned, another attempt
\* is due; a call that makes no attempt makes no wait.
C29_WaitsBetweenAttempts ==
    /\ requests = 0 => waits = <<>>
    /\ (Done /\ requests >= 1) => Len(waits) = requests - 1
    /\ pc = "sleep" => Len(waits) = requests /\ retries + 1 <= max_retries
    /\ (pc = "loop" /\ requests >= 1) =>
          Len(waits) = requests /\ WhileTrue

C29_Witness ==
    /\ Done
    /\ requests = 3
    /\ Len(waits) = 2
    /\ IsStatus(history[1], 429)
    /\ IsNetworkFailure(history[2])
    /\ IsStatus(history[3], 500)

\* C30: with max_retries >= 0 the while condition never becomes false, a
\* finished call has made an attempt and the RETRY_EXHAUSTED error is not
\* raised; with max_retries < 0 the call ends without any attempt by
\* raising the RETRY_EXHAUSTED error.
C30_ExhaustedOnlyWithoutBudget ==
    IF max_retries >= 0
    THEN /\ pc = "loop" => WhileTrue
         /\ Done =>
               /\ requests >= 1
               /\ result # Raise(ExhaustedError)
               /\ result.kind = "raise" =>
                     KindOf(result.error) # "Exhausted"
    ELSE /\ requests = 0
         /\ waits = <<>>
         /\ Done => result = Raise(ExhaustedError)

C30_Witness ==
    /\ max_retries < 0
    /\ Done
    /\ requests = 0
    /\ result.kind = "raise"
    /\ result.error.code = "RETRY_EXHAUSTED"

\* ------------------------------------------------------------------------
\* The public methods of HttpClient and what each attempt sends
\* ------------------------------------------------------------------------

\* largest max_retries of the calls made through the public methods
MaxMethodRetries == 1

\* the json argument of post and put: None, an empty object, an object
JsonArgs == {None, Some(EmptyDict), Some({<<"title", "Clean Air Act">>})}

\* get(path, params), post(path, json), put(path, json), delete(path)
CallShapes ==
    { Shape("GET", p, None) :
        p \in {None,
               Some({<<"status", PyNone>>, <<"limit", PyValue("int", "0")>>})} }
        \cup { Shape(m, None, j) : m \in {"POST", "PUT"}, j \in JsonArgs }
        \cup { Shape("DELETE", None, None) }

InitMethods ==
    InitRequest({0 - 1} \cup (0..MaxMethodRetries), CallShapes)

SpecMethods == InitMethods /\ [][Next]_vars

\* C31: every attempt of a call sends the call's method, "/api" + path,
\* the filtered query parameters and the json body, so all attempts send
\* the same; whatever the method, a timeout or network failure with
\* retries left is followed by a wait and another attempt, a call whose
\* attempts all fail at network level makes max_retries + 1 attempts, and
\* a 429 whose envelope and retry-after can be read is retried while
\* retries are left.
C31_AttemptsResendSameRequest ==
    /\ Len(sent) = requests
    /\ \A i \in 1..Len(sent) :
          /\ sent[i] = Wire(method, <<"/api", path>>,
                            FilterParams(arg_params), json)
          /\ sent[i] = sent[1]
    /\ \A i \in 1..Len(history) :
          (IsNetworkFailure(history[i]) /\ i - 1 < max_retries) =>
              /\ Len(waits) >= i
              /\ pc = "loop" => Len(sent) >= i
              /\ Done => Len(sent) >= i + 1
    /\ ( /\ Done
         /\ max_retries >= 0
         /\ \A i \in 1..Len(history) : IsNetworkFailure(history[i]) ) =>
            Len(sent) = max_retries + 1
    /\ ( /\ GotResponse
         /\ pc # "loop"
         /\ received.response.status_code = 429
         /\ EnvelopeReadable(ErrorBodyOf(received.response))
         /\ RetryAfterOf(received.response).ok
         /\ RetryAfterOf(received.response).val >= 0
         /\ Len(history) - 1 < max_retries ) =>
            pc = "sleep"

C31_Witness ==
    /\ Done
    /\ method = "POST"
    /\ json = Some({<<"title", "Clean Air Act">>})
    /\ max_retries = 1
    /\ Len(sent) = 2
    /\ IsTimeout(history[1])
    /\ IsStatus(history[2], 429)
    /\ sent[2].method = "POST"
    /\ sent[2].json = json

\* ------------------------------------------------------------------------
\* Properties of pagination: arguments of the fetches, failing fetches
\* ------------------------------------------------------------------------

\* C32: the first fetch of an iterator has no cursor and fetch i+1 has the
\* cursor of page i, absent when page i had none; every fetch is given the
\* **kwargs of the paginate call; after a page with has_more = true,
\* empty or not, with or without a cursor, the iterator is not finished,
\* and the next() that follows the page's last item makes fetch i+1.
C32_NextFetchFollowsPage ==
    \A g \in Iterators :
        /\ Len(fetch_args[g]) = Len(fetches[g])
        /\ \A i \in 1..Len(fetch_args[g]) : fetch_args[g][i] = kwargs[g]
        /\ fetches[g] # <<>> => fetches[g][1] = None
        /\ \A i \in 1..Len(pages[g]) :
              /\ Len(fetches[g]) >= i + 1 =>
                    fetches[g][i + 1] = pages[g][i].cursor
              /\ pages[g][i].has_more =>
                    /\ i = Len(pages[g]) => gen[g].pc # "finished"
                    /\ pulls[g] > Len(Flatten(SubSeq(pages[g], 1, i))) =>
                          Len(fetches[g]) >= i + 1

C32_Witness ==
    /\ kwargs[1] = {<<"status", "active">>}
    /\ Len(pages[1]) = 2
    /\ pages[1][1] = Page(<<>>, TRUE, None)
    /\ pages[1][2] = Page(<<"c">>, TRUE, None)
    /\ fetches[1] = <<None, None, None>>
    /\ fetch_args[1][3] = {<<"status", "active">>}
    /\ yielded[1] = <<"c">>

\* C33: when a fetch raises, the exception leaves the next() that made
\* the fetch, which is the one after the last item handed out; every item
\* of the pages fetched before has been handed out and stays so; the
\* failing fetch is the iterator's last, however often it is pulled
\* afterwards; collect_all ends by the exception and returns no list.
C33_FetchFailurePropagates ==
    \A g \in Iterators :
        /\ raised[g] # None <=> gen[g].pc = "failed"
        /\ raised[g] # None =>
              /\ The(raised[g]).fetch = Len(fetches[g])
              /\ Len(pages[g]) = Len(fetches[g]) - 1
              /\ The(raised[g]).pull = Len(yielded[g]) + 1
              /\ pulls[g] >= The(raised[g]).pull
              /\ yielded[g] = Flatten(pages[g])
              /\ (g = 1 /\ CollectAll) =>
                    /\ consumer.pc = "raised"
                    /\ ~Returned
                    /\ pulls[g] = The(raised[g]).pull
        /\ (g = 1 /\ CollectAll /\ consumer.pc = "raised") =>
              raised[g] # None

C33_Witness ==
    /\ consumer.mode = "next"
    /\ raised[1] # None
    /\ The(raised[1]).error = "NetworkError"
    /\ pages[1] = <<Page(<<"a", "b">>, TRUE, Some("c1"))>>
    /\ yielded[1] = <<"a", "b">>
    /\ fetches[1] = <<None, Some("c1")>>
    /\ The(raised[1]).pull = 3
    /\ pulls[1] = 5

====
